---- MODULE Spec2Model ----
(***************************************************************************)
(* TypeScript console task manager (src/src/index.ts).                     *)
(*                                                                         *)
(* The model holds the TaskManager instance (tasks, nextId), what the last *)
(* method call printed (console) and threw (thrown), the call itself       *)
(* (call) and the ids handed out so far (assigned).  Strings are sequences *)
(* of one-character strings, so that String.prototype.trim and parseInt    *)
(* are computed and not assumed.                                           *)
(*                                                                         *)
(* Spec calls the methods of TaskManager in any order; SpecLoop runs the   *)
(* menu loop of runMenu, which owns running, pc, cycle and typed.          *)
(***************************************************************************)
EXTENDS Integers, Sequences, FiniteSets, TLC

VARIABLES
    tasks,      \* TaskManager.tasks: Task[]
    nextId,     \* TaskManager.nextId: number
    console,    \* the lines the last call wrote with console.log
    thrown,     \* the message of the Error the last call threw, or NoError
    call,       \* the last method call and its arguments
    assigned,   \* history: the ids given to new tasks, in order of creation
    running,    \* runMenu: let running
    pc,         \* runMenu: where the loop stands ("menu", "case4", "delay", "exited")
    cycle,      \* what the current iteration of the while loop has done so far
    typed       \* the lines promptSync returned in the current iteration

vars == <<tasks, nextId, console, thrown, call, assigned, running, pc, cycle, typed>>

\* The variables of runMenu.
loop == <<running, pc, cycle, typed>>

----------------------------------------------------------------------------
(* Bounds *)

\* Number of tasks created during one run of the model.
MaxAdds == 3

----------------------------------------------------------------------------
(* Strings *)

\* Characters String.prototype.trim strips (those the inputs below use).
WhiteSpace == {" ", "\t"}

\* 'Pending' and 'Completed', the two members of Task.status.
Pending == <<"P", "e", "n", "d", "i", "n", "g">>

Completed == <<"C", "o", "m", "p", "l", "e", "t", "e", "d">>

\* 'No description provided.'
NoDescription == <<"N", "o", " ", "d", "e", "s", "c", "r", "i", "p", "t", "i", "o", "n",
                   " ", "p", "r", "o", "v", "i", "d", "e", "d", ".">>

RECURSIVE TrimStart(_)
TrimStart(s) ==
    IF s # <<>> /\ Head(s) \in WhiteSpace THEN TrimStart(Tail(s)) ELSE s

RECURSIVE TrimEnd(_)
TrimEnd(s) ==
    IF s # <<>> /\ s[Len(s)] \in WhiteSpace
    THEN TrimEnd(SubSeq(s, 1, Len(s) - 1))
    ELSE s

\* A mutant of Trim: strips the leading white space only.
TrimLeadingOnly(s) == TrimStart(s)

\* String.prototype.trim
Trim(s) == TrimEnd(TrimStart(s))

----------------------------------------------------------------------------
(* Inputs of the calls *)

\* The <<name, description>> pairs a caller passes to addTask: an empty
\* name, a white-space-only name, a plain name with no description, a
\* padded name with a white-space-only description, and a name with white
\* space inside with a padded description.
AddInputs ==
    { << <<>>,             <<" ", "d", " ">> >>,
      << <<" ", "\t">>,    <<>> >>,
      << <<"a">>,          <<>> >>,
      << <<" ", "a", "\t">>, <<"\t", " ">> >>,
      << <<"a", " ", "b">>, <<" ", "d", " ">> >> }

\* Ids a caller passes: negative, zero, assigned and not yet assigned.
IdInputs == -1 .. MaxAdds + 1

\* Status strings a caller passes (the parameter's type is erased at run
\* time): the two members, and three that are not.
StatusInputs ==
    { Pending,
      Completed,
      <<"p", "e", "n", "d", "i", "n", "g">>,
      <<"D", "o", "n", "e">>,
      <<" ">> \o Completed }

----------------------------------------------------------------------------
(* Errors and console lines *)

NoError == "none"

ErrEmptyName == "Task name cannot be empty."

ErrNotFound == "Task with ID ${id} not found."

ErrInvalidStatus == "Invalid status: '${status}'. Must be 'Pending' or 'Completed'."

ErrNotFoundForUpdate == "Task with ID ${id} not found for update."

\* One console.log line: what it says and the values interpolated into it.
Line(text, id, name, status) ==
    [text |-> text, id |-> id, name |-> name, status |-> status]

\* The record of a method call; arguments the method does not take are
\* 0 or <<>>.
Call(op, name, description, id, status) ==
    [op |-> op, name |-> name, description |-> description,
     id |-> id, status |-> status]

\* The lines read in one iteration of the loop; a prompt that was not
\* shown, or returned null or '', is <<>>.
Input(choice, name, description, idStr, statusStr) ==
    [choice |-> choice, name |-> name, description |-> description,
     idStr |-> idStr, statusStr |-> statusStr]

----------------------------------------------------------------------------
(* TaskManager *)

Init ==
    /\ tasks = <<>>
    /\ nextId = 1
    /\ console = <<>>
    /\ thrown = NoError
    /\ call = Call("new", <<>>, <<>>, 0, <<>>)
    /\ assigned = <<>>
    /\ running = TRUE
    /\ pc = "menu"
    /\ cycle = <<>>
    /\ typed = Input(<<>>, <<>>, <<>>, <<>>, <<>>)

\* A mutant of NewTask: numbers the task by the length of the list.
NewTaskIdFromLength(name, description) ==
    [ id          |-> Len(tasks) + 1,
      name        |-> Trim(name),
      description |-> IF Trim(description) # <<>> THEN Trim(description)
                      ELSE NoDescription,
      status      |-> Pending ]

\* A mutant of NewTask: increments nextId before it reads it.
NewTaskPreIncrement(name, description) ==
    [ id          |-> nextId + 1,
      name        |-> Trim(name),
      description |-> IF Trim(description) # <<>> THEN Trim(description)
                      ELSE NoDescription,
      status      |-> Pending ]

\* The object literal of addTask; nextId is read before the increment.
NewTask(name, description) ==
    [ id          |-> nextId,
      name        |-> Trim(name),
      description |-> IF Trim(description) # <<>> THEN Trim(description)
                      ELSE NoDescription,
      status      |-> Pending ]

\* A mutant of AddTask: takes the id before it validates the name.
AddTaskCountsFirst(name, description) ==
    IF Trim(name) = <<>>
    THEN /\ thrown' = ErrEmptyName
         /\ console' = <<>>
         /\ nextId' = nextId + 1
         /\ UNCHANGED <<tasks, assigned>>
    ELSE LET newTask == NewTask(name, description) IN
         /\ nextId' = nextId + 1
         /\ tasks' = Append(tasks, newTask)
         /\ console' = <<Line("Task ${id}: '${name}' added successfully.",
                              newTask.id, newTask.name, <<>>)>>
         /\ thrown' = NoError
         /\ assigned' = Append(assigned, newTask.id)

\* A mutant of AddTask: puts the new task at the front of the list.
AddTaskUnshift(name, description) ==
    IF Trim(name) = <<>>
    THEN /\ thrown' = ErrEmptyName
         /\ console' = <<>>
         /\ UNCHANGED <<tasks, nextId, assigned>>
    ELSE LET newTask == NewTask(name, description) IN
         /\ nextId' = nextId + 1
         /\ tasks' = <<newTask>> \o tasks
         /\ console' = <<Line("Task ${id}: '${name}' added successfully.",
                              newTask.id, newTask.name, <<>>)>>
         /\ thrown' = NoError
         /\ assigned' = Append(assigned, newTask.id)

\* addTask(name, description)
AddTask(name, description) ==
    IF Trim(name) = <<>>
    THEN /\ thrown' = ErrEmptyName
         /\ console' = <<>>
         /\ UNCHANGED <<tasks, nextId, assigned>>
    ELSE LET newTask == NewTask(name, description) IN
         /\ nextId' = nextId + 1
         /\ tasks' = Append(tasks, newTask)
         /\ console' = <<Line("Task ${id}: '${name}' added successfully.",
                              newTask.id, newTask.name, <<>>)>>
         /\ thrown' = NoError
         /\ assigned' = Append(assigned, newTask.id)

\* A mutant of FilterOut: drops the task at position id.
FilterOutByPosition(ts, id) ==
    LET keep == {i \in 1 .. Len(ts) : i # id}
        RECURSIVE pick(_)
        pick(i) == IF i > Len(ts) THEN <<>>
                   ELSE IF i \in keep THEN <<ts[i]>> \o pick(i + 1)
                   ELSE pick(i + 1)
    IN pick(1)

\* this.tasks.filter(task => task.id !== id)
FilterOut(ts, id) == SelectSeq(ts, LAMBDA task : task.id # id)

\* A mutant of RemoveTask: reports an unknown id without throwing.
RemoveTaskSilent(id) ==
    /\ tasks' = FilterOut(tasks, id)
    /\ thrown' = NoError
    /\ console' = <<Line("Task ID ${id} removed.", id, <<>>, <<>>)>>
    /\ UNCHANGED <<nextId, assigned>>

\* removeTask(id)
RemoveTask(id) ==
    LET initialLength == Len(tasks)
        filtered == FilterOut(tasks, id) IN
    /\ tasks' = filtered
    /\ IF Len(filtered) = initialLength
       THEN /\ thrown' = ErrNotFound
            /\ console' = <<>>
       ELSE /\ thrown' = NoError
            /\ console' = <<Line("Task ID ${id} removed.", id, <<>>, <<>>)>>
    /\ UNCHANGED <<nextId, assigned>>

\* One line of the for...of loop of listTasks.
TaskRow(task) ==
    Line(IF task.status = Completed
         THEN "done [${id}] ${name} - Status: ${status}"
         ELSE "wait [${id}] ${name} - Status: ${status}",
         task.id, task.name, task.status)

\* A mutant of ListTasks: walks the list from its end.
ListTasksReversed ==
    /\ console' =
         IF Len(tasks) = 0
         THEN << Line("--- Current Tasks ---", 0, <<>>, <<>>),
                 Line("Your task list is empty!", 0, <<>>, <<>>) >>
         ELSE << Line("--- Current Tasks ---", 0, <<>>, <<>>) >>
              \o [i \in 1 .. Len(tasks) |-> TaskRow(tasks[Len(tasks) + 1 - i])]
              \o << Line("---------------------", 0, <<>>, <<>>) >>
    /\ thrown' = NoError
    /\ UNCHANGED <<tasks, nextId, assigned>>

\* listTasks()
ListTasks ==
    /\ console' =
         IF Len(tasks) = 0
         THEN << Line("--- Current Tasks ---", 0, <<>>, <<>>),
                 Line("Your task list is empty!", 0, <<>>, <<>>) >>
         ELSE << Line("--- Current Tasks ---", 0, <<>>, <<>>) >>
              \o [i \in 1 .. Len(tasks) |-> TaskRow(tasks[i])]
              \o << Line("---------------------", 0, <<>>, <<>>) >>
    /\ thrown' = NoError
    /\ UNCHANGED <<tasks, nextId, assigned>>

\* A mutant of ClearTasks: starts the ids again at 1.
ClearTasksResetsNextId ==
    /\ tasks' = <<>>
    /\ nextId' = 1
    /\ console' = <<Line("All tasks cleared.", 0, <<>>, <<>>)>>
    /\ thrown' = NoError
    /\ UNCHANGED assigned

\* clearTasks()
ClearTasks ==
    /\ tasks' = <<>>
    /\ console' = <<Line("All tasks cleared.", 0, <<>>, <<>>)>>
    /\ thrown' = NoError
    /\ UNCHANGED <<nextId, assigned>>

\* A mutant of IsStatus: compares without regard to case or padding.
IsStatusLenient(status) ==
    \/ status \in {Pending, Completed}
    \/ Trim(status) \in {Pending, Completed}
    \/ status = <<"p", "e", "n", "d", "i", "n", "g">>

\* The negation of: status !== 'Pending' && status !== 'Completed'
IsStatus(status) == status = Pending \/ status = Completed

\* A mutant of Find: takes the id for a position in the list.
FindByPosition(ts, id) == IF id \in 1 .. Len(ts) THEN id ELSE 0

\* this.tasks.find(task => task.id === id): the position of the first
\* task with that id, 0 for undefined.
Find(ts, id) ==
    IF \E i \in 1 .. Len(ts) : ts[i].id = id
    THEN CHOOSE i \in 1 .. Len(ts) :
             /\ ts[i].id = id
             /\ \A j \in 1 .. i - 1 : ts[j].id # id
    ELSE 0

\* A mutant of UpdateTaskStatus: sets the status of every task once the
\* id is found.
UpdateTaskStatusOfAll(id, status) ==
    LET taskToUpdate == Find(tasks, id) IN
    IF ~IsStatus(status)
    THEN /\ thrown' = ErrInvalidStatus
         /\ console' = <<>>
         /\ UNCHANGED <<tasks, nextId, assigned>>
    ELSE IF taskToUpdate = 0
    THEN /\ thrown' = ErrNotFoundForUpdate
         /\ console' = <<>>
         /\ UNCHANGED <<tasks, nextId, assigned>>
    ELSE /\ tasks' = [i \in 1 .. Len(tasks) |-> [tasks[i] EXCEPT !.status = status]]
         /\ console' = <<Line("Task ${id} status updated to: ${status}",
                              id, <<>>, status)>>
         /\ thrown' = NoError
         /\ UNCHANGED <<nextId, assigned>>

\* A mutant of UpdateTaskStatus: looks the task up before it checks the
\* status.
UpdateTaskStatusFindsFirst(id, status) ==
    LET taskToUpdate == Find(tasks, id) IN
    IF taskToUpdate = 0
    THEN /\ thrown' = ErrNotFoundForUpdate
         /\ console' = <<>>
         /\ UNCHANGED <<tasks, nextId, assigned>>
    ELSE IF ~IsStatus(status)
    THEN /\ thrown' = ErrInvalidStatus
         /\ console' = <<>>
         /\ UNCHANGED <<tasks, nextId, assigned>>
    ELSE /\ tasks' = [tasks EXCEPT ![taskToUpdate].status = status]
         /\ console' = <<Line("Task ${id} status updated to: ${status}",
                              id, <<>>, status)>>
         /\ thrown' = NoError
         /\ UNCHANGED <<nextId, assigned>>

\* updateTaskStatus(id, status)
UpdateTaskStatus(id, status) ==
    LET taskToUpdate == Find(tasks, id) IN
    IF ~IsStatus(status)
    THEN /\ thrown' = ErrInvalidStatus
         /\ console' = <<>>
         /\ UNCHANGED <<tasks, nextId, assigned>>
    ELSE IF taskToUpdate = 0
    THEN /\ thrown' = ErrNotFoundForUpdate
         /\ console' = <<>>
         /\ UNCHANGED <<tasks, nextId, assigned>>
    ELSE /\ tasks' = [tasks EXCEPT ![taskToUpdate].status = status]
         /\ console' = <<Line("Task ${id} status updated to: ${status}",
                              id, <<>>, status)>>
         /\ thrown' = NoError
         /\ UNCHANGED <<nextId, assigned>>

----------------------------------------------------------------------------
(* The calls a client of TaskManager makes, in any order *)

CallAddTask ==
    \E input \in AddInputs :
        LET name == input[1]
            description == input[2] IN
        /\ Len(assigned) < MaxAdds
        /\ call' = Call("addTask", name, description, 0, <<>>)
        /\ AddTask(name, description)
        /\ UNCHANGED loop

CallRemoveTask ==
    \E id \in IdInputs :
        /\ call' = Call("removeTask", <<>>, <<>>, id, <<>>)
        /\ RemoveTask(id)
        /\ UNCHANGED loop

CallListTasks ==
    /\ call' = Call("listTasks", <<>>, <<>>, 0, <<>>)
    /\ ListTasks
    /\ UNCHANGED loop

CallClearTasks ==
    /\ call' = Call("clearTasks", <<>>, <<>>, 0, <<>>)
    /\ ClearTasks
    /\ UNCHANGED loop

CallUpdateTaskStatus ==
    \E id \in IdInputs, status \in StatusInputs :
        /\ call' = Call("updateTaskStatus", <<>>, <<>>, id, status)
        /\ UpdateTaskStatus(id, status)
        /\ UNCHANGED loop

Next ==
    \/ CallAddTask
    \/ CallRemoveTask
    \/ CallListTasks
    \/ CallClearTasks
    \/ CallUpdateTaskStatus

Spec == Init /\ [][Next]_vars

----------------------------------------------------------------------------
(* parseInt *)

\* The digits of parseInt, by value: Digits[v + 1] is the digit of value v.
Digits == <<"0", "1", "2", "3", "4", "5", "6", "7", "8", "9",
            "a", "b", "c", "d", "e", "f">>

UpperDigits == <<"0", "1", "2", "3", "4", "5", "6", "7", "8", "9",
                 "A", "B", "C", "D", "E", "F">>

\* c is a digit in the radix.
IsDigit(c, radix) ==
    \E v \in 0 .. radix - 1 : Digits[v + 1] = c \/ UpperDigits[v + 1] = c

DigitValue(c, radix) ==
    CHOOSE v \in 0 .. radix - 1 : Digits[v + 1] = c \/ UpperDigits[v + 1] = c

\* The value parseInt gives when no digit can be read.
NaN == <<>>

IsNaN(n) == n = NaN

\* The longest prefix of s made of digits, as a number <<n>>; NaN when s
\* starts with no digit.
RECURSIVE ParseDigits(_, _, _, _)
ParseDigits(s, radix, acc, any) ==
    IF s # <<>> /\ IsDigit(Head(s), radix)
    THEN ParseDigits(Tail(s), radix, acc * radix + DigitValue(Head(s), radix), TRUE)
    ELSE IF any THEN <<acc>> ELSE NaN

\* A mutant of ParseInt: gives 0 where no digit can be read, as
\* Number('') or parseInt(string) || 0 would.
ParseIntOrZero(string) ==
    LET s == TrimStart(string)
        negative == s # <<>> /\ Head(s) = "-"
        t == IF s # <<>> /\ Head(s) \in {"+", "-"} THEN Tail(s) ELSE s
        hex == Len(t) >= 2 /\ t[1] = "0" /\ t[2] \in {"x", "X"}
        n == IF hex THEN ParseDigits(SubSeq(t, 3, Len(t)), 16, 0, FALSE)
             ELSE ParseDigits(t, 10, 0, FALSE)
    IN IF IsNaN(n) THEN <<0>>
       ELSE IF negative THEN <<0 - n[1]>> ELSE n

\* parseInt(string) without a radix: leading white space and a sign are
\* skipped, a 0x prefix selects radix 16, the digits are read up to the
\* first character that is not one.  The result is <<n>> or NaN.
ParseInt(string) ==
    LET s == TrimStart(string)
        negative == s # <<>> /\ Head(s) = "-"
        t == IF s # <<>> /\ Head(s) \in {"+", "-"} THEN Tail(s) ELSE s
        hex == Len(t) >= 2 /\ t[1] = "0" /\ t[2] \in {"x", "X"}
        n == IF hex THEN ParseDigits(SubSeq(t, 3, Len(t)), 16, 0, FALSE)
             ELSE ParseDigits(t, 10, 0, FALSE)
    IN IF IsNaN(n) THEN NaN
       ELSE IF negative THEN <<0 - n[1]>> ELSE n

----------------------------------------------------------------------------
(* runMenu *)

ErrInvalidId == "Invalid ID entered."

\* Lines the user enters at the menu: nothing, white space, the six
\* choices, a padded 6 and two that are no choice.
ChoiceInputs ==
    { <<>>,
      <<" ">>,
      <<"1">>, <<"2">>, <<"3">>, <<"4">>, <<"5">>, <<"6">>,
      <<" ", "6", "\t">>,
      <<"7">>,
      <<"1", "2">> }

\* Lines the user enters for a task id: nothing, no number, a sign alone,
\* a bare hexadecimal prefix, ids, a padded id, an id followed by a
\* letter, a negative id, zero, and a hexadecimal id.
IdStrInputs ==
    { <<>>,
      <<"x">>,
      <<"-">>,
      <<"0", "x">>,
      <<"1">>,
      <<" ", "2", " ">>,
      <<"3">>,
      <<"2", "x">>,
      <<"-", "1">>,
      <<"0">>,
      <<"0", "x", "3">> }

\* Lines the user enters for the new status: the two values, one of them
\* padded, and three that are none.
StatusStrInputs ==
    { Pending,
      <<" ">> \o Completed \o <<"\t">>,
      <<"p", "e", "n", "d", "i", "n", "g">>,
      <<"D", "o", "n", "e">>,
      <<>> }

\* The six case labels of the switch.
CaseLabels == { <<"1">>, <<"2">>, <<"3">>, <<"4">>, <<"5">>, <<"6">> }

\* A mutant of Selection: switches on the line as entered.
SelectionUntrimmed(choice) == choice

\* The discriminant of the switch: choice.trim()
Selection(choice) == Trim(choice)

\* displayMenu() and the prompt for the choice, at the top of the loop body.
Top == <<"displayMenu", "promptChoice">>

\* An iteration step in which no TaskManager method is called; error is
\* what the step throws itself.
NoCall(error) ==
    /\ call' = Call("none", <<>>, <<>>, 0, <<>>)
    /\ console' = <<>>
    /\ thrown' = error
    /\ UNCHANGED <<tasks, nextId, assigned>>

\* A mutant of Settle: has no catch clause, an error ends the loop.
SettleRethrows(done) ==
    IF thrown' = NoError
    THEN /\ running' = running
         /\ cycle' = done
         /\ pc' = "delay"
    ELSE /\ running' = FALSE
         /\ cycle' = done
         /\ pc' = "exited"

\* A mutant of Settle: goes back to the menu without the delay.
SettleSkipsDelay(done) ==
    /\ running' = running
    /\ cycle' = IF thrown' = NoError THEN done ELSE Append(done, "operationFailed")
    /\ pc' = "menu"

\* The end of the try block and the catch clause: after the events done,
\* the delay is awaited if nothing was thrown, and otherwise the error is
\* printed and the loop goes on.
Settle(done) ==
    /\ running' = running
    /\ IF thrown' = NoError
       THEN /\ cycle' = done
            /\ pc' = "delay"
       ELSE /\ cycle' = Append(done, "operationFailed")
            /\ pc' = "menu"

\* if (!choice): 'No input received', continue
LoopNoInput ==
    /\ running /\ pc = "menu"
    /\ \E choice \in ChoiceInputs :
        /\ choice = <<>>
        /\ typed' = Input(choice, <<>>, <<>>, <<>>, <<>>)
        /\ NoCall(NoError)
        /\ cycle' = Top \o <<"noInput">>
        /\ pc' = "menu"
        /\ running' = running

\* case '1'
LoopAdd ==
    /\ running /\ pc = "menu"
    /\ \E choice \in ChoiceInputs, entered \in AddInputs :
        LET name == entered[1]
            description == entered[2] IN
        /\ choice # <<>> /\ Selection(choice) = <<"1">>
        /\ Len(assigned) < MaxAdds
        /\ typed' = Input(choice, name, description, <<>>, <<>>)
        /\ call' = Call("addTask", name, description, 0, <<>>)
        /\ AddTask(name, description)
        /\ Settle(Top \o <<"promptName", "promptDescription", "addTask">>)

\* case '2'
LoopList ==
    /\ running /\ pc = "menu"
    /\ \E choice \in ChoiceInputs :
        /\ choice # <<>> /\ Selection(choice) = <<"2">>
        /\ typed' = Input(choice, <<>>, <<>>, <<>>, <<>>)
        /\ call' = Call("listTasks", <<>>, <<>>, 0, <<>>)
        /\ ListTasks
        /\ Settle(Top \o <<"listTasks">>)

\* A mutant of LoopRemove: shows the list before it asks for the id, as
\* case '4' does.
LoopRemoveListsFirst ==
    /\ running /\ pc = "menu"
    /\ \E choice \in ChoiceInputs, idStr \in IdStrInputs :
        LET id == ParseInt(Trim(idStr)) IN
        /\ choice # <<>> /\ Selection(choice) = <<"3">>
        /\ typed' = Input(choice, <<>>, <<>>, idStr, <<>>)
        /\ IF IsNaN(id)
           THEN /\ NoCall(ErrInvalidId)
                /\ Settle(Top \o <<"listTasks", "promptId">>)
           ELSE /\ call' = Call("removeTask", <<>>, <<>>, id[1], <<>>)
                /\ RemoveTask(id[1])
                /\ Settle(Top \o <<"listTasks", "promptId", "removeTask">>)

\* case '3'
LoopRemove ==
    /\ running /\ pc = "menu"
    /\ \E choice \in ChoiceInputs, idStr \in IdStrInputs :
        LET id == ParseInt(Trim(idStr)) IN
        /\ choice # <<>> /\ Selection(choice) = <<"3">>
        /\ typed' = Input(choice, <<>>, <<>>, idStr, <<>>)
        /\ IF IsNaN(id)
           THEN /\ NoCall(ErrInvalidId)
                /\ Settle(Top \o <<"promptId">>)
           ELSE /\ call' = Call("removeTask", <<>>, <<>>, id[1], <<>>)
                /\ RemoveTask(id[1])
                /\ Settle(Top \o <<"promptId", "removeTask">>)

\* case '4', up to the prompt for the id: manager.listTasks()
LoopUpdateList ==
    /\ running /\ pc = "menu"
    /\ \E choice \in ChoiceInputs :
        /\ choice # <<>> /\ Selection(choice) = <<"4">>
        /\ typed' = Input(choice, <<>>, <<>>, <<>>, <<>>)
        /\ call' = Call("listTasks", <<>>, <<>>, 0, <<>>)
        /\ ListTasks
        /\ cycle' = Top \o <<"listTasks">>
        /\ pc' = "case4"
        /\ running' = running

\* case '4', from the prompt for the id on
LoopUpdate ==
    /\ running /\ pc = "case4"
    /\ \E idStr \in IdStrInputs, statusStr \in StatusStrInputs :
        LET id == ParseInt(Trim(idStr))
            status == Trim(statusStr) IN
        IF IsNaN(id)
        THEN /\ statusStr = <<>>
             /\ typed' = [typed EXCEPT !.idStr = idStr]
             /\ NoCall(ErrInvalidId)
             /\ Settle(cycle \o <<"promptId">>)
        ELSE /\ typed' = [typed EXCEPT !.idStr = idStr, !.statusStr = statusStr]
             /\ call' = Call("updateTaskStatus", <<>>, <<>>, id[1], status)
             /\ UpdateTaskStatus(id[1], status)
             /\ Settle(cycle \o <<"promptId", "promptStatus", "updateTaskStatus">>)

\* case '5'
LoopClear ==
    /\ running /\ pc = "menu"
    /\ \E choice \in ChoiceInputs :
        /\ choice # <<>> /\ Selection(choice) = <<"5">>
        /\ typed' = Input(choice, <<>>, <<>>, <<>>, <<>>)
        /\ call' = Call("clearTasks", <<>>, <<>>, 0, <<>>)
        /\ ClearTasks
        /\ Settle(Top \o <<"clearTasks">>)

\* case '6': running = false; the delay is skipped and the while ends
LoopExit ==
    /\ running /\ pc = "menu"
    /\ \E choice \in ChoiceInputs :
        /\ choice # <<>> /\ Selection(choice) = <<"6">>
        /\ typed' = Input(choice, <<>>, <<>>, <<>>, <<>>)
        /\ NoCall(NoError)
        /\ cycle' = Top \o <<"goodbye">>
        /\ running' = FALSE
        /\ pc' = "exited"

\* A mutant of LoopInvalid: leaves the iteration with continue.
LoopInvalidSkipsDelay ==
    /\ running /\ pc = "menu"
    /\ \E choice \in ChoiceInputs :
        /\ choice # <<>> /\ Selection(choice) \notin CaseLabels
        /\ typed' = Input(choice, <<>>, <<>>, <<>>, <<>>)
        /\ NoCall(NoError)
        /\ cycle' = Top \o <<"invalidSelection">>
        /\ pc' = "menu"
        /\ running' = running

\* default: 'Invalid selection'
LoopInvalid ==
    /\ running /\ pc = "menu"
    /\ \E choice \in ChoiceInputs :
        /\ choice # <<>> /\ Selection(choice) \notin CaseLabels
        /\ typed' = Input(choice, <<>>, <<>>, <<>>, <<>>)
        /\ NoCall(NoError)
        /\ Settle(Top \o <<"invalidSelection">>)

\* if (running): 'Processing...', await the 500 ms timer
Delay ==
    /\ running /\ pc = "delay"
    /\ cycle' = Append(cycle, "delay")
    /\ pc' = "menu"
    /\ UNCHANGED <<tasks, nextId, console, thrown, call, assigned, running, typed>>

NextLoop ==
    \/ LoopNoInput
    \/ LoopAdd
    \/ LoopList
    \/ LoopRemove
    \/ LoopUpdateList
    \/ LoopUpdate
    \/ LoopClear
    \/ LoopExit
    \/ LoopInvalid
    \/ Delay

SpecLoop == Init /\ [][NextLoop]_vars

----------------------------------------------------------------------------
(* Terms of the specification *)

\* The error kinds of the specification, by the messages the code throws.
ValidationError == {ErrEmptyName, ErrInvalidStatus, ErrInvalidId}

NotFoundError == {ErrNotFound, ErrNotFoundForUpdate}

\* s is empty or made of white space only.
IsBlank(s) == \A k \in 1 .. Len(s) : s[k] \in WhiteSpace

\* t is s without its leading and trailing white space.
IsTrimmed(t, s) ==
    \E i, j \in 0 .. Len(s) :
        /\ i + Len(t) + j = Len(s)
        /\ \A k \in 1 .. i : s[k] \in WhiteSpace
        /\ \A k \in Len(s) - j + 1 .. Len(s) : s[k] \in WhiteSpace
        /\ \A k \in 1 .. Len(t) : t[k] = s[i + k]
        /\ t # <<>> => t[1] \notin WhiteSpace /\ t[Len(t)] \notin WhiteSpace

\* Some task of the list ts has this id.
HasId(ts, id) == \E i \in 1 .. Len(ts) : ts[i].id = id

\* The list ts without its i-th task.
Without(ts, i) == SubSeq(ts, 1, i - 1) \o SubSeq(ts, i + 1, Len(ts))


\* The iteration did this.
HasEvent(events, e) == \E k \in 1 .. Len(events) : events[k] = e

\* The TaskStore operations among the events of an iteration, in order.
Operations(events) ==
    SelectSeq(events, LAMBDA e : e \in {"addTask", "removeTask", "listTasks",
                                         "clearTasks", "updateTaskStatus"})

\* Those of them that change the store.
Mutations(events) ==
    SelectSeq(events, LAMBDA e : e \in {"addTask", "removeTask",
                                         "clearTasks", "updateTaskStatus"})

\* The menu choice, trimmed, is this digit.
Chose(choice, digit) == choice # <<>> /\ IsTrimmed(<<digit>>, choice)

\* The iteration is over: the loop is about to show the menu again, or
\* has ended.
CycleOver == pc \in {"menu", "exited"} /\ cycle # <<>>

\* No integer can be read from the line: after the leading white space and
\* an optional sign there is no decimal digit, or there is a 0x prefix
\* with no hexadecimal digit behind it.
NotParseable(s) ==
    LET k == CHOOSE n \in 0 .. Len(s) :
                 /\ \A j \in 1 .. n : s[j] \in WhiteSpace
                 /\ n = Len(s) \/ s[n + 1] \notin WhiteSpace
        b == IF k < Len(s) /\ s[k + 1] \in {"+", "-"} THEN k + 2 ELSE k + 1
    IN IF b + 1 <= Len(s) /\ s[b] = "0" /\ s[b + 1] \in {"x", "X"}
       THEN ~(/\ b + 2 <= Len(s)
              /\ s[b + 2] \in {"0", "1", "2", "3", "4", "5", "6", "7", "8", "9",
                               "a", "b", "c", "d", "e", "f",
                               "A", "B", "C", "D", "E", "F"})
       ELSE ~(/\ b <= Len(s)
              /\ s[b] \in {"0", "1", "2", "3", "4", "5", "6", "7", "8", "9"})

----------------------------------------------------------------------------
(* Claims *)

\* C1: the k-th successful add is assigned id k, whatever calls (failing
\* ones included) come between the adds: ids go up by one per successful
\* add and none is assigned twice, also after a remove or a clear.
C1_KthAddGetsIdK == \A k \in 1 .. Len(assigned) : assigned[k] = k

\* C1 witness: the third add succeeded in a store that removals or a clear
\* had emptied before.
C1_Witness ==
    /\ call.op = "addTask"
    /\ thrown = NoError
    /\ Len(assigned) = 3
    /\ Len(tasks) = 1

\* C2: in every reachable state no two tasks of the collection have the
\* same id.
C2_UniqueIds ==
    \A i, j \in 1 .. Len(tasks) : i # j => tasks[i].id # tasks[j].id

\* C2 witness: two tasks are stored after the task with id 1 was removed.
C2_Witness ==
    /\ Len(tasks) = 2
    /\ ~HasId(tasks, 1)
    /\ call.op = "addTask"
    /\ thrown = NoError

\* C3: an add whose name is empty or white space only fails with the
\* validation error and leaves the store as it was (same tasks, nextId not
\* consumed), so that the next successful add gets the id it would have
\* got without the failed call.
C3_BlankNameRejected ==
    [][ /\ (call'.op = "addTask" /\ IsBlank(call'.name)) =>
              /\ thrown' = ErrEmptyName
              /\ thrown' \in ValidationError
              /\ tasks' = tasks
              /\ nextId' = nextId
        /\ (/\ call.op = "addTask" /\ thrown = ErrEmptyName
            /\ call'.op = "addTask" /\ thrown' = NoError) =>
              /\ Len(tasks') = Len(tasks) + 1
              /\ tasks'[Len(tasks')].id = Len(assigned) + 1
      ]_vars

\* C3 witness: an add with a white-space-only name has failed on a store
\* that holds tasks.
C3_Witness ==
    /\ call.op = "addTask"
    /\ call.name = <<" ", "\t">>
    /\ thrown = ErrEmptyName
    /\ Len(tasks) = 2

\* C4: a successful add appends exactly one task at the end, with the
\* trimmed name, status Pending and the trimmed description or, when that
\* is empty, the placeholder; the tasks already stored keep their position
\* and fields.
C4_AddAppends ==
    [][ (call'.op = "addTask" /\ ~IsBlank(call'.name)) =>
          /\ thrown' = NoError
          /\ Len(tasks') = Len(tasks) + 1
          /\ SubSeq(tasks', 1, Len(tasks)) = tasks
          /\ LET newTask == tasks'[Len(tasks')] IN
             /\ IsTrimmed(newTask.name, call'.name)
             /\ newTask.status = Pending
             /\ IF IsBlank(call'.description)
                THEN newTask.description = NoDescription
                ELSE IsTrimmed(newTask.description, call'.description)
      ]_vars

\* C4 witness: a padded name with a white-space-only description was added
\* to a store of two tasks.
C4_Witness ==
    /\ call.op = "addTask"
    /\ call.name = <<" ", "a", "\t">>
    /\ call.description = <<"\t", " ">>
    /\ thrown = NoError
    /\ Len(tasks) = 3
    /\ tasks[3].name = <<"a">>
    /\ tasks[3].description = NoDescription

\* C5: remove of an id that is in the store deletes exactly the one task
\* with that id, keeps the others with their fields and in their order,
\* and leaves nextId unchanged.
C5_RemoveDeletesOne ==
    [][ (call'.op = "removeTask" /\ HasId(tasks, call'.id)) =>
          /\ thrown' = NoError
          /\ \E i \in 1 .. Len(tasks) :
                /\ tasks[i].id = call'.id
                /\ tasks' = Without(tasks, i)
          /\ nextId' = nextId
      ]_vars

\* C5 witness: the middle one of three tasks was removed.
C5_Witness ==
    /\ call.op = "removeTask"
    /\ call.id = 2
    /\ thrown = NoError
    /\ Len(tasks) = 2
    /\ tasks[1].id = 1
    /\ tasks[2].id = 3

\* C6: remove of an id no task has (0, negative, not yet assigned, already
\* removed) fails with the not-found error and leaves the collection and
\* nextId unchanged.
C6_RemoveUnknownRejected ==
    [][ (call'.op = "removeTask" /\ ~HasId(tasks, call'.id)) =>
          /\ thrown' = ErrNotFound
          /\ thrown' \in NotFoundError
          /\ tasks' = tasks
          /\ nextId' = nextId
      ]_vars

\* C6 witness: the id of an already removed task was removed again from a
\* store that holds other tasks.
C6_Witness ==
    /\ call.op = "removeTask"
    /\ thrown = ErrNotFound
    /\ call.id \in 1 .. nextId - 1
    /\ Len(tasks) = 2

\* C7: an update with a status other than exactly 'Pending' or 'Completed'
\* fails with the validation error and changes no task: the value is in no
\* stored task afterwards.
C7_InvalidStatusRejected ==
    [][ (call'.op = "updateTaskStatus" /\ call'.status \notin {Pending, Completed}) =>
          /\ thrown' = ErrInvalidStatus
          /\ thrown' \in ValidationError
          /\ tasks' = tasks
          /\ nextId' = nextId
          /\ \A i \in 1 .. Len(tasks') : tasks'[i].status # call'.status
      ]_vars

\* C7 witness: 'pending' in lower case was refused for a task that is in
\* the store.
C7_Witness ==
    /\ call.op = "updateTaskStatus"
    /\ call.status = <<"p", "e", "n", "d", "i", "n", "g">>
    /\ HasId(tasks, call.id)
    /\ thrown = ErrInvalidStatus

\* C8: an update with a valid status and an id no task has fails with the
\* not-found error and leaves every task and nextId unchanged.
C8_UpdateUnknownRejected ==
    [][ (/\ call'.op = "updateTaskStatus"
         /\ call'.status \in {Pending, Completed}
         /\ ~HasId(tasks, call'.id)) =>
          /\ thrown' = ErrNotFoundForUpdate
          /\ thrown' \in NotFoundError
          /\ tasks' = tasks
          /\ nextId' = nextId
      ]_vars

\* C8 witness: the update of a removed task to Completed was refused in a
\* store that holds other tasks.
C8_Witness ==
    /\ call.op = "updateTaskStatus"
    /\ call.status = Completed
    /\ call.id = 1
    /\ thrown = ErrNotFoundForUpdate
    /\ Len(tasks) = 2

\* C9: a successful update sets the status of the task with that id and
\* changes nothing else: not that task's id, name and description, not
\* another task, not the order or size of the collection, not nextId.
C9_UpdateSetsStatusOnly ==
    [][ (/\ call'.op = "updateTaskStatus"
         /\ call'.status \in {Pending, Completed}
         /\ HasId(tasks, call'.id)) =>
          /\ thrown' = NoError
          /\ Len(tasks') = Len(tasks)
          /\ \A i \in 1 .. Len(tasks) :
                tasks'[i] = IF tasks[i].id = call'.id
                            THEN [ id          |-> tasks[i].id,
                                   name        |-> tasks[i].name,
                                   description |-> tasks[i].description,
                                   status      |-> call'.status ]
                            ELSE tasks[i]
          /\ nextId' = nextId
      ]_vars

\* C9 witness: the middle one of three tasks was set to Completed and its
\* neighbours are Pending.
C9_Witness ==
    /\ call.op = "updateTaskStatus"
    /\ call.id = 2
    /\ thrown = NoError
    /\ Len(tasks) = 3
    /\ tasks[1].status = Pending
    /\ tasks[2].status = Completed
    /\ tasks[3].status = Pending

\* C10: clear empties the collection and keeps nextId, in any state: a
\* list after it prints the empty list, the next successful add gets the
\* id that continues the sequence (1 only if nothing was ever added), and
\* a clear of an empty store succeeds and leaves the store as it was.
C10_ClearKeepsNextId ==
    [][ /\ call'.op = "clearTasks" =>
              /\ thrown' = NoError
              /\ tasks' = <<>>
              /\ nextId' = nextId
        /\ (call'.op = "clearTasks" /\ tasks = <<>>) =>
              /\ thrown' = NoError
              /\ tasks' = tasks
              /\ nextId' = nextId
        /\ (call.op = "clearTasks" /\ call'.op = "listTasks") =>
              /\ Len(console') = 2
              /\ console'[2].text = "Your task list is empty!"
        /\ (call.op = "clearTasks" /\ call'.op = "addTask" /\ thrown' = NoError) =>
              /\ Len(tasks') = 1
              /\ tasks'[1].id = Len(assigned) + 1
      ]_vars

\* C10 witness: a store that had handed out two ids was cleared, and a
\* further add is possible.
C10_Witness ==
    /\ call.op = "clearTasks"
    /\ thrown = NoError
    /\ tasks = <<>>
    /\ nextId = 3
    /\ Len(assigned) < MaxAdds

\* The position of an id in the order of creation.
AddedAt(id) == CHOOSE k \in 1 .. Len(assigned) : assigned[k] = id

\* C11: list prints exactly the tasks now in the store, each once, in the
\* order in which they were added; on an empty store it prints the empty
\* list and throws nothing.
C11_ListInInsertionOrder ==
    call.op = "listTasks" =>
        /\ thrown = NoError
        /\ console[1].text = "--- Current Tasks ---"
        /\ IF tasks = <<>>
           THEN /\ Len(console) = 2
                /\ console[2].text = "Your task list is empty!"
           ELSE /\ Len(console) = Len(tasks) + 2
                /\ \A i \in 1 .. Len(tasks) :
                      /\ console[i + 1].id = tasks[i].id
                      /\ console[i + 1].name = tasks[i].name
                      /\ console[i + 1].status = tasks[i].status
                /\ \A i, j \in 1 .. Len(tasks) :
                      i < j => AddedAt(console[i + 1].id) < AddedAt(console[j + 1].id)
                /\ console[Len(tasks) + 2].text = "---------------------"

\* C11 witness: the first and the third task were listed after the second
\* had been removed.
C11_Witness ==
    /\ call.op = "listTasks"
    /\ Len(console) = 4
    /\ console[2].id = 1
    /\ console[3].id = 3

\* C19: the stored tasks are in strictly ascending id order and every
\* stored id is at least 1 and below nextId; nextId is 1 plus the number of
\* successful adds so far, and only a successful add changes it.
C19_AscendingIdsBelowNextId ==
    /\ [](/\ \A i, j \in 1 .. Len(tasks) : i < j => tasks[i].id < tasks[j].id
          /\ \A i \in 1 .. Len(tasks) : 1 <= tasks[i].id /\ tasks[i].id < nextId
          /\ nextId = 1 + Len(assigned))
    /\ [][ nextId' # nextId =>
             /\ call'.op = "addTask"
             /\ thrown' = NoError
             /\ nextId' = nextId + 1
         ]_vars

\* C19 witness: three ids were handed out, the first task is gone, the two
\* left are stored in ascending order.
C19_Witness ==
    /\ nextId = 4
    /\ Len(tasks) = 2
    /\ tasks[1].id = 2
    /\ tasks[2].id = 3

\* C20: an update with both an invalid status and an id that is not in the
\* store fails with the invalid-status error, never with the not-found
\* error, and leaves the store unchanged.
C20_StatusCheckedBeforeLookup ==
    [][ (/\ call'.op = "updateTaskStatus"
         /\ call'.status \notin {Pending, Completed}
         /\ ~HasId(tasks, call'.id)) =>
          /\ thrown' = ErrInvalidStatus
          /\ thrown' \notin NotFoundError
          /\ tasks' = tasks
          /\ nextId' = nextId
      ]_vars

\* C20 witness: 'Done' was refused for an id that is not in a store
\* holding other tasks.
C20_Witness ==
    /\ call.op = "updateTaskStatus"
    /\ call.status = <<"D", "o", "n", "e">>
    /\ ~HasId(tasks, call.id)
    /\ Len(tasks) = 2
    /\ thrown = ErrInvalidStatus

\* C12: in every reachable state, also of the menu loop where the new
\* status is free text typed by the user, every stored task's status is
\* 'Pending' or 'Completed'.
C12_StatusIsEnumerated ==
    \A i \in 1 .. Len(tasks) : tasks[i].status \in {Pending, Completed}

\* C12 witness: the user typed a padded 'Completed' in the loop and a task
\* has that status.
C12_Witness ==
    /\ typed.statusStr = <<" ">> \o Completed \o <<"\t">>
    /\ thrown = NoError
    /\ HasEvent(cycle, "updateTaskStatus")
    /\ \E i \in 1 .. Len(tasks) : tasks[i].status = Completed

\* C13: the loop is Running or Exited and nothing else; the iteration
\* whose trimmed choice is '6' moves it to Exited and every other one
\* leaves it Running; once Exited, nothing happens any more.
C13_RunningUntilChoice6 ==
    /\ [](/\ running \in BOOLEAN
          /\ running <=> pc \in {"menu", "case4", "delay"}
          /\ ~running <=> pc = "exited")
    /\ [][ /\ running
           /\ ~running' <=> Chose(typed'.choice, "6")
       ]_vars

\* C13 witness: the loop has ended on a padded 6, with tasks in the store.
C13_Witness ==
    /\ ~running
    /\ typed.choice = <<" ", "6", "\t">>
    /\ Len(tasks) = 2

\* C14: an error raised in an iteration, by TaskManager or by the parsing
\* of the id, is caught in that iteration and reported; the loop stays
\* Running, the next iteration starts with the menu, and the loop ends on
\* choice 6 only.
C14_ErrorsAreCaught ==
    /\ [](running => ENABLED NextLoop)
    /\ [][ /\ thrown' # NoError =>
                 /\ running'
                 /\ pc' = "menu"
                 /\ cycle'[Len(cycle')] = "operationFailed"
           /\ pc = "menu" =>
                 /\ Len(cycle') >= 2
                 /\ cycle'[1] = "displayMenu"
                 /\ cycle'[2] = "promptChoice"
           /\ ~running' => Chose(typed'.choice, "6") /\ thrown' = NoError
       ]_vars

\* C14 witness: an update of an unknown id has failed and the loop is back
\* at the menu.
C14_Witness ==
    /\ thrown = ErrNotFoundForUpdate
    /\ running
    /\ pc = "menu"
    /\ Len(tasks) = 1

\* C15 as claimed: in every iteration at most one TaskStore operation is
\* performed, for every choice including choice 4.
C15_AtMostOneOperation == Len(Operations(cycle)) <= 1

\* C15 as amended: in every iteration at most one TaskStore operation is
\* performed, except that an iteration of choice 4 performs list and then
\* at most one updateStatus; no iteration performs more than one operation
\* that changes the store.
C15_OneOperationOrListThenUpdate ==
    /\ Len(Mutations(cycle)) <= 1
    /\ IF Chose(typed.choice, "4")
       THEN Operations(cycle) \in { <<"listTasks">>,
                                    <<"listTasks", "updateTaskStatus">> }
       ELSE Len(Operations(cycle)) <= 1

\* C15 witness: an iteration of choice 4 has listed the tasks and updated
\* one.
C15_Witness ==
    /\ Chose(typed.choice, "4")
    /\ Operations(cycle) = <<"listTasks", "updateTaskStatus">>
    /\ thrown = NoError
    /\ pc = "menu"

C17_PauseAfterSuccess ==
    (/\ pc = "menu"
     /\ Operations(cycle) # <<>>
     /\ thrown = NoError) =>
        cycle[Len(cycle)] = "delay"

\* C17 witness: a remove has succeeded, the pause is over and the menu is
\* next.
C17_Witness ==
    /\ pc = "menu"
    /\ HasEvent(cycle, "removeTask")
    /\ thrown = NoError
    /\ cycle[Len(cycle)] = "delay"

\* C18: the pause is skipped in exactly the iterations that read no input,
\* that raised an error, or that chose exit; every other iteration pauses,
\* also one with an unrecognised choice, which performs no operation.
C18_PauseSkippedExactlyWhen ==
    /\ CycleOver =>
          (~HasEvent(cycle, "delay") <=>
              \/ typed.choice = <<>>
              \/ thrown # NoError
              \/ Chose(typed.choice, "6"))
    /\ (/\ typed.choice # <<>>
        /\ \A d \in {"1", "2", "3", "4", "5", "6"} : ~Chose(typed.choice, d)) =>
          /\ Operations(cycle) = <<>>
          /\ pc \in {"delay", "menu"}
          /\ pc = "menu" => cycle[Len(cycle)] = "delay"

\* C18 witness: a line of white space was answered with 'Invalid
\* selection' and the pause.
C18_Witness ==
    /\ pc = "menu"
    /\ typed.choice = <<" ">>
    /\ HasEvent(cycle, "invalidSelection")
    /\ cycle[Len(cycle)] = "delay"

====
